---- MODULE Spec2Model ----
(***************************************************************************)
(* PhishAware: the click-tracking, quiz and risk-scoring pipeline over the *)
(* tables of database/models.py.  Every request handler is one action; a   *)
(* handler's db.session.commit() is the point where its writes reach the   *)
(* tables, and a failing commit (input ok = FALSE) leaves them untouched.  *)
(***************************************************************************)
EXTENDS Integers, Sequences, FiniteSets, TLC

\* ---------------------------------------------------------------- bounds
MaxTicks     == 1   \* advances of the wall clock
MaxQuiz      == 2   \* rows of quiz_result, one campaign
MaxClicks    == 2   \* rows of click_tracking, one campaign
MaxQuizTwo   == 1   \* rows of quiz_result, two campaigns
MaxClicksTwo == 1   \* rows of click_tracking, two campaigns
MaxBatch     == 2   \* e-mail addresses in one add-employees request
MaxOption    == 2   \* highest option index an answer sheet may select
MaxQuizSave   == 2  \* rows of quiz_result, save_quiz_result on its own
MaxClicksSave == 1  \* rows of click_tracking, save_quiz_result on its own
MaxRacers     == 3  \* track_click calls that overlap
MaxScored     == 3  \* risk_score rows a campaign summary is taken over

\* ---------------------------------------------------------------- inputs
NULL == -1                               \* a NULL column / Python None

CampaignIds == {"c1", "c2", "cX"}        \* public ids a request may carry
Employees   == {"e1"}                    \* e-mail addresses
Tokens      == {1, 2}                    \* values uuid4() may return
TokenInputs == Tokens \cup {0}           \* tokens a request may carry
Delays      == {65}                      \* seconds between two requests

\* A row of the campaign table as create_campaign leaves it.
NewCampaign(c) ==
    [status |-> "draft",
     phishing_type |-> IF c = "c1" THEN "credential_harvesting"
                       ELSE "malware"]

VARIABLES
    campaign,           \* the campaign table, by public campaign_id
    employee,           \* the employee table (e-mail addresses)
    campaign_employee,  \* the campaign_employee table, in id order
    click_tracking,     \* the click_tracking table, in id order
    quiz_result,        \* the quiz_result table, in id order
    risk_score,         \* the risk_score table, in id order
    now,                \* datetime.utcnow(), in seconds
    ticks,              \* how often the clock has advanced
    result,             \* what the last request returned
    requests            \* the track_click calls in flight, by request

vars == <<campaign, employee, campaign_employee, click_tracking,
          quiz_result, risk_score, now, ticks, result, requests>>

tables == <<campaign, employee, campaign_employee, click_tracking,
            quiz_result, risk_score>>

\* ---------------------------------------------------------------- helpers
Min(S) == CHOOSE x \in S : \A y \in S : x <= y

\* Query.filter_by(...).first() on a table kept in id order: S is the set
\* of ids of the matching rows; the first of them, 0 when there is none.
First(S) == IF S = {} THEN 0 ELSE Min(S)

Range(s) == {s[i] : i \in 1..Len(s)}

\* Scores are numbers of hundredths of a point, the precision of
\* round(score, 2): 100 points are 100 * Scale.
Scale == 100

\* What a handler returns: the core function's dict (success, message,
\* status_code, already_clicked), the HTTP status the route answers with,
\* and for the admin routes the count they report.
Outcome(op, success, status_code, message, http) ==
    [op |-> op, success |-> success, status_code |-> status_code,
     message |-> message, already_clicked |-> FALSE, http |-> http,
     count |-> NULL]

\* ---------------------------------------------------------------- clock
Tick(d) ==
    /\ ticks < MaxTicks
    /\ now' = now + d
    /\ ticks' = ticks + 1
    /\ UNCHANGED <<tables, result, requests>>

\* ---------------------------------------------------------------- enroll
\* The loop of add_employees_to_campaign over the posted addresses; uuids
\* are the values uuid4() returns, one per address.
RECURSIVE AddLoop(_, _, _, _, _)
AddLoop(c, emails, uuids, emps, ces) ==
    IF emails = <<>> THEN [employee |-> emps, campaign_employee |-> ces]
    ELSE LET email == Head(emails)
             existing == First({i \in 1..Len(ces) : ces[i].campaign_id = c
                                            /\ ces[i].employee_id = email})
             row == [campaign_id |-> c, employee_id |-> email,
                     tracking_token |-> Head(uuids),
                     email_sent_at |-> NULL, clicked |-> FALSE,
                     clicked_at |-> NULL, status |-> "pending"]
         IN  AddLoop(c, Tail(emails), Tail(uuids), emps \cup {email},
                     IF existing = 0 THEN Append(ces, row) ELSE ces)

\* tracking_token declared without unique=True
UniqueOK_noToken(ces) ==
    \A i, j \in 1..Len(ces) : i # j =>
        ~(ces[i].campaign_id = ces[j].campaign_id
          /\ ces[i].employee_id = ces[j].employee_id)

\* UNIQUE on campaign_employee.tracking_token and uq_campaign_employee
UniqueOK(ces) ==
    \A i, j \in 1..Len(ces) : i # j =>
        /\ ces[i].tracking_token # ces[j].tracking_token
        /\ ~(ces[i].campaign_id = ces[j].campaign_id
             /\ ces[i].employee_id = ces[j].employee_id)

add_employees_to_campaign(cid, emails, uuids, ok) ==
    IF cid \notin DOMAIN campaign
    THEN /\ result' = Outcome("add_employees", FALSE, NULL,
                              "Campaign not found", 302)
         /\ UNCHANGED <<tables, now, ticks, requests>>
    ELSE LET after == AddLoop(cid, emails, uuids, employee, campaign_employee)
         IN  /\ IF ok /\ UniqueOK(after.campaign_employee)
                THEN /\ employee' = after.employee
                     /\ campaign_employee' = after.campaign_employee
                     /\ result' =
                           [Outcome("add_employees", TRUE, NULL,
                                    "Added employees to campaign", 302)
                            EXCEPT !.count = Len(after.campaign_employee)
                                             - Len(campaign_employee)]
                ELSE /\ UNCHANGED <<employee, campaign_employee>>
                     /\ result' = Outcome("add_employees", FALSE, NULL,
                                          "Error adding employees", 200)
             /\ UNCHANGED <<campaign, click_tracking, quiz_result,
                            risk_score, now, ticks, requests>>

\* ---------------------------------------------------------------- dispatch
\* send_campaign_emails: delivered is the set of enrollment ids for which
\* send_phishing_simulation_email reports success.  The outcome names the
\* enrollments the loop called it for (mailed) and those it succeeded for
\* (sent); the calls are made before the commit.
\* the status filter left out of the query
PendingOf_anyStatus(cid, ces) ==
    {i \in 1..Len(ces) : ces[i].campaign_id = cid}

\* CampaignEmployee.query.filter_by(campaign_id=..., status='pending')
PendingOf(cid, ces) ==
    {i \in 1..Len(ces) : ces[i].campaign_id = cid
                         /\ ces[i].status = "pending"}

send_campaign_emails(cid, delivered, ok) ==
    IF cid \notin DOMAIN campaign
    THEN /\ result' = Outcome("send_emails", FALSE, NULL,
                              "Campaign not found", 404)
                        @@ [mailed |-> {}, sent |-> {}]
         /\ UNCHANGED <<tables, now, ticks, requests>>
    ELSE LET pending == PendingOf(cid, campaign_employee)
             sent == pending \cap delivered
         IN  IF ok
             THEN /\ campaign_employee' =
                        [i \in 1..Len(campaign_employee) |->
                            IF i \in sent
                            THEN [campaign_employee[i] EXCEPT
                                     !.email_sent_at = now,
                                     !.status = "sent"]
                            ELSE campaign_employee[i]]
                  /\ campaign' =
                        IF sent # {}
                        THEN [campaign EXCEPT ![cid].status = "sent"]
                        ELSE campaign
                  /\ result' =
                        [Outcome("send_emails",
                                 sent # {} \/ pending \ sent = {},
                                 NULL, "Sent emails", 200)
                         EXCEPT !.count = Cardinality(sent)]
                           @@ [mailed |-> pending, sent |-> sent]
                  /\ UNCHANGED <<employee, click_tracking, quiz_result,
                                 risk_score, now, ticks, requests>>
             ELSE /\ result' = Outcome("send_emails", FALSE, NULL,
                                       "commit failed", 500)
                                 @@ [mailed |-> pending, sent |-> sent]
                  /\ UNCHANGED <<tables, now, ticks, requests>>

\* ---------------------------------------------------------------- click
\* clicked_at left unset on the enrollment
FirstClick_noClickedAt(ces, clicks, ce_id, cid, t) ==
    [campaign_employee |->
        [ces EXCEPT ![ce_id] = [@ EXCEPT !.clicked = TRUE,
                                         !.status = "clicked"]],
     click_tracking |->
        Append(clicks, [campaign_id |-> cid,
                        employee_id |-> ces[ce_id].employee_id,
                        campaign_employee_id |-> ce_id,
                        clicked_at |-> t])]

\* the click row added without the update of the enrollment
FirstClick_noFlag(ces, clicks, ce_id, cid, t) ==
    [campaign_employee |-> ces,
     click_tracking |->
        Append(clicks, [campaign_id |-> cid,
                        employee_id |-> ces[ce_id].employee_id,
                        campaign_employee_id |-> ce_id,
                        clicked_at |-> t])]

\* The writes of a first click: the ClickTracking row and the update of
\* the enrollment, committed together.
FirstClick(ces, clicks, ce_id, cid, t) ==
    [campaign_employee |->
        [ces EXCEPT ![ce_id] = [@ EXCEPT !.clicked = TRUE,
                                         !.clicked_at = t,
                                         !.status = "clicked"]],
     click_tracking |->
        Append(clicks, [campaign_id |-> cid,
                        employee_id |-> ces[ce_id].employee_id,
                        campaign_employee_id |-> ce_id,
                        clicked_at |-> t])]

\* the enrollment looked up by its token alone
FindEnrollment_anyCampaign(cid, token, ces) ==
    First({i \in 1..Len(ces) : ces[i].tracking_token = token})

\* CampaignEmployee.query.filter_by(campaign_id=campaign.id,
\*                                   tracking_token=tracking_token).first()
FindEnrollment(cid, token, ces) ==
    First({i \in 1..Len(ces) : /\ ces[i].campaign_id = cid
                                /\ ces[i].tracking_token = token})

\* the re-click check left out
AlreadyClicked_never(ce) == FALSE

\* "if campaign_employee.clicked:" (the re-click check)
AlreadyClicked(ce) == ce.clicked

track_click(cid, token, ok) ==
    LET ce_id == FindEnrollment(cid, token, campaign_employee)
    IN  /\ UNCHANGED <<campaign, employee, quiz_result, risk_score,
                       now, ticks, requests>>
        /\ IF cid \notin DOMAIN campaign
           THEN /\ result' = Outcome("track_click", FALSE, 404,
                                     "Campaign not found", 404)
                /\ UNCHANGED <<campaign_employee, click_tracking>>
           ELSE IF ce_id = 0
           THEN /\ result' = Outcome("track_click", FALSE, 404,
                                     "Invalid tracking link", 404)
                /\ UNCHANGED <<campaign_employee, click_tracking>>
           ELSE IF AlreadyClicked(campaign_employee[ce_id])
           THEN /\ result' = [Outcome("track_click", TRUE, NULL,
                                      "Click already recorded", 302)
                              EXCEPT !.already_clicked = TRUE]
                /\ UNCHANGED <<campaign_employee, click_tracking>>
           ELSE IF ok
           THEN LET w == FirstClick(campaign_employee, click_tracking,
                                    ce_id, cid, now)
                IN  /\ campaign_employee' = w.campaign_employee
                    /\ click_tracking' = w.click_tracking
                    /\ result' = Outcome("track_click", TRUE, NULL,
                                         "Click recorded successfully", 302)
           ELSE /\ result' = Outcome("track_click", FALSE, 500,
                                     "Error", 404)
                /\ UNCHANGED <<campaign_employee, click_tracking>>

\* ---------------------------------------------------------------- quiz
QuestionIds == <<"q1", "q2", "q3", "q4", "q5">>

\* correct_answer of the five questions of each bank of QUIZ_QUESTIONS
QUIZ_QUESTIONS ==
    [credential_harvesting |-> <<1, 1, 1, 0, 2>>,
     malware               |-> <<1, 1, 1, 1, 1>>,
     urgent_action         |-> <<1, 2, 2, 1, 1>>]

\* QUIZ_QUESTIONS.get(phishing_type, QUIZ_QUESTIONS['credential_harvesting'])
Bank(ptype) ==
    IF ptype \in DOMAIN QUIZ_QUESTIONS THEN QUIZ_QUESTIONS[ptype]
    ELSE QUIZ_QUESTIONS["credential_harvesting"]

\* answer_data.get(q_id)
Get(map, k) == IF k \in DOMAIN map THEN map[k] ELSE NULL

\* The posted answers: present = FALSE is a body without "answers" (None).
Sheet(map) == [present |-> TRUE, map |-> map]
NoAnswers  == [present |-> FALSE, map |-> <<>>]

\* One entry of QUIZ_QUESTIONS[name]: the question and explanation texts are
\* named by their place in the bank, the options by their four indexes.
Question(name, i) ==
    [id |-> QuestionIds[i],
     question |-> <<name, i>>,
     options |-> 0..3,
     correct_answer |-> QUIZ_QUESTIONS[name][i],
     explanation |-> <<name, i>>]

\* the name of the bank QUIZ_QUESTIONS.get(phishing_type, default) returns
BankName(ptype) ==
    IF ptype \in DOMAIN QUIZ_QUESTIONS THEN ptype
    ELSE "credential_harvesting"

\* the whole entries handed out
get_quiz_questions_withAnswers(ptype) ==
    [i \in 1..Len(QuestionIds) |-> Question(BankName(ptype), i)]

get_quiz_questions(ptype) ==
    [i \in 1..Len(QuestionIds) |->
        LET q == Question(BankName(ptype), i)
        IN  [id |-> q.id, question |-> q.question, options |-> q.options]]

\* the pass mark taken as 60
validate_quiz_answer_pass60(answer_data, ptype) ==
    LET questions == Bank(ptype)
        total == Len(questions)
        trail == [i \in 1..total |->
                    LET selected == Get(answer_data.map, QuestionIds[i])
                    IN  [question_id |-> QuestionIds[i],
                         selected_answer |-> selected,
                         correct_answer |-> questions[i],
                         is_correct |-> (selected = questions[i])]]
        correct == Cardinality({i \in 1..total : trail[i].is_correct})
        score == (correct * 100 * Scale) \div total
    IN  [failed |-> ~answer_data.present, total_questions |-> total,
         correct_answers |-> correct, score |-> score,
         passed |-> (score >= 60 * Scale), answers |-> trail]

\* the sheet's own keys graded, in place of the bank's questions
validate_quiz_answer_sheetKeys(answer_data, ptype) ==
    LET questions == Bank(ptype)
        keys == {i \in 1..Len(questions) :
                    QuestionIds[i] \in DOMAIN answer_data.map}
        total == Cardinality(DOMAIN answer_data.map)
        trail == [i \in 1..Len(questions) |->
                    [question_id |-> QuestionIds[i],
                     selected_answer |-> Get(answer_data.map, QuestionIds[i]),
                     correct_answer |-> questions[i],
                     is_correct |-> (i \in keys =>
                        answer_data.map[QuestionIds[i]] = questions[i])]]
        correct == Cardinality({i \in 1..Len(questions) :
                                   trail[i].is_correct})
    IN  [failed |-> ~answer_data.present, total_questions |-> total,
         correct_answers |-> correct,
         score |-> IF total = 0 THEN 0
                   ELSE (correct * 100 * Scale) \div total,
         passed |-> (total # 0 /\ (correct * 100) \div total >= 70),
         answers |-> trail]

validate_quiz_answer(answer_data, ptype) ==
    LET questions == Bank(ptype)
        total == Len(questions)
        trail == [i \in 1..total |->
                    LET selected == Get(answer_data.map, QuestionIds[i])
                    IN  [question_id |-> QuestionIds[i],
                         selected_answer |-> selected,
                         correct_answer |-> questions[i],
                         is_correct |-> (selected = questions[i])]]
        correct == Cardinality({i \in 1..total : trail[i].is_correct})
        score == (correct * 100 * Scale) \div total
    IN  IF ~answer_data.present
        THEN [failed |-> TRUE, total_questions |-> 0, correct_answers |-> 0,
              score |-> 0, passed |-> FALSE, answers |-> <<>>]
        ELSE [failed |-> FALSE, total_questions |-> total,
              correct_answers |-> correct, score |-> score,
              passed |-> (score >= 70 * Scale), answers |-> trail]

\* the status change left in place when the commit fails
save_quiz_result_noRollback(cid, employee_id, ptype, answer_data, ok, ces, quizzes) ==
    LET validation == validate_quiz_answer(answer_data, ptype)
        ce_id == First({i \in 1..Len(ces) : ces[i].campaign_id = cid
                                    /\ ces[i].employee_id = employee_id})
        completed == [ces EXCEPT ![ce_id] = [@ EXCEPT !.status = "completed"]]
    IN  IF ce_id = 0 \/ validation.failed
        THEN [success |-> FALSE, campaign_employee |-> ces,
              quiz_result |-> quizzes, message |-> "Error"]
        ELSE IF ~ok
        THEN [success |-> FALSE, campaign_employee |-> completed,
              quiz_result |-> quizzes, message |-> "Error"]
        ELSE [success |-> TRUE, campaign_employee |-> completed,
              quiz_result |->
                 Append(quizzes,
                        [campaign_id |-> cid, employee_id |-> employee_id,
                         campaign_employee_id |-> ce_id,
                         total_questions |-> validation.total_questions,
                         correct_answers |-> validation.correct_answers,
                         score |-> validation.score,
                         passed |-> validation.passed]),
              message |-> "saved"]

\* the enrollment looked up by the employee alone
save_quiz_result_anyCampaign(cid, employee_id, ptype, answer_data, ok, ces, quizzes) ==
    LET validation == validate_quiz_answer(answer_data, ptype)
        ce_id == First({i \in 1..Len(ces) :
                           ces[i].employee_id = employee_id})
    IN  IF ce_id = 0 \/ validation.failed \/ ~ok
        THEN [success |-> FALSE, campaign_employee |-> ces,
              quiz_result |-> quizzes, message |-> "Error"]
        ELSE [success |-> TRUE,
              campaign_employee |->
                 [ces EXCEPT ![ce_id] = [@ EXCEPT !.status = "completed"]],
              quiz_result |->
                 Append(quizzes,
                        [campaign_id |-> cid, employee_id |-> employee_id,
                         campaign_employee_id |-> ce_id,
                         total_questions |-> validation.total_questions,
                         correct_answers |-> validation.correct_answers,
                         score |-> validation.score,
                         passed |-> validation.passed]),
              message |-> "saved"]

\* the QuizResult insert left out of a save that reports success
save_quiz_result_noRow(cid, employee_id, ptype, answer_data, ok, ces, quizzes) ==
    LET ce_id == First({i \in 1..Len(ces) : ces[i].campaign_id = cid
                                    /\ ces[i].employee_id = employee_id})
    IN  IF ce_id = 0 \/ ~answer_data.present \/ ~ok
        THEN [success |-> FALSE, campaign_employee |-> ces,
              quiz_result |-> quizzes, message |-> "Error"]
        ELSE [success |-> TRUE,
              campaign_employee |->
                 [ces EXCEPT ![ce_id] = [@ EXCEPT !.status = "completed"]],
              quiz_result |-> quizzes, message |-> "saved"]

\* save_quiz_result: the tables after the call, and whether it succeeded.
save_quiz_result(cid, employee_id, ptype, answer_data, ok, ces, quizzes) ==
    LET validation == validate_quiz_answer(answer_data, ptype)
        ce_id == First({i \in 1..Len(ces) : ces[i].campaign_id = cid
                                    /\ ces[i].employee_id = employee_id})
        unchanged == [success |-> FALSE, campaign_employee |-> ces,
                      quiz_result |-> quizzes, message |-> "Error"]
    IN  IF cid \notin DOMAIN campaign \/ employee_id \notin employee
        THEN [unchanged EXCEPT !.message = "Campaign or employee not found"]
        ELSE IF ce_id = 0
        THEN [unchanged EXCEPT !.message = "Enrollment not found"]
        ELSE IF validation.failed \/ ~ok
        THEN unchanged
        ELSE [success |-> TRUE,
              campaign_employee |->
                 [ces EXCEPT ![ce_id] = [@ EXCEPT !.status = "completed"]],
              quiz_result |->
                 Append(quizzes,
                        [campaign_id |-> cid, employee_id |-> employee_id,
                         campaign_employee_id |-> ce_id,
                         total_questions |-> validation.total_questions,
                         correct_answers |-> validation.correct_answers,
                         score |-> validation.score,
                         passed |-> validation.passed]),
              message |-> "saved"]

\* ---------------------------------------------------------------- scoring
AWARENESS_LEVEL_HIGH   == 80
AWARENESS_LEVEL_MEDIUM == 50

\* a click exactly on a breakpoint placed in the faster band
calculate_email_risk_inclusive(ce) ==
    IF ce.clicked /\ ce.clicked_at # NULL /\ ce.email_sent_at # NULL
    THEN LET secs == ce.clicked_at - ce.email_sent_at
         IN  [clicked_link |-> ce.clicked,
              click_time_minutes |-> secs \div 60,
              time_to_click_risk |->
                 IF secs <= 60 THEN 30
                 ELSE IF secs <= 300 THEN 25
                 ELSE IF secs <= 1800 THEN 20
                 ELSE IF secs <= 3600 THEN 15
                 ELSE 10]
    ELSE [clicked_link |-> ce.clicked, click_time_minutes |-> NULL,
          time_to_click_risk |-> 0]

calculate_email_risk(ce) ==
    IF ce.clicked /\ ce.clicked_at # NULL /\ ce.email_sent_at # NULL
    THEN LET secs == ce.clicked_at - ce.email_sent_at
         IN  [clicked_link |-> ce.clicked,
              click_time_minutes |->
                 IF secs >= 0 THEN secs \div 60 ELSE -((-secs) \div 60),
              time_to_click_risk |->
                 IF secs < 60 THEN 30
                 ELSE IF secs < 300 THEN 25
                 ELSE IF secs < 1800 THEN 20
                 ELSE IF secs < 3600 THEN 15
                 ELSE 10]
    ELSE [clicked_link |-> ce.clicked, click_time_minutes |-> NULL,
          time_to_click_risk |-> 0]

calculate_quiz_awareness_score(ce_id, quizzes) ==
    LET q == First({i \in 1..Len(quizzes) :
                       quizzes[i].campaign_employee_id = ce_id})
    IN  IF q = 0 THEN 0 ELSE quizzes[q].score

\* the two weights exchanged
calculate_overall_awareness_swapped(email_risk, quiz_score) ==
    LET email_behavior_score ==
            IF email_risk.clicked_link
            THEN 60 - email_risk.time_to_click_risk ELSE 100
        overall_score == quiz_score * 6 + email_behavior_score * Scale * 4
    IN  [overall_score |-> (overall_score + 5) \div 10,
         email_behavior_score |-> email_behavior_score,
         awareness_level |->
            IF overall_score >= AWARENESS_LEVEL_HIGH * Scale * 10
            THEN "high"
            ELSE IF overall_score >= AWARENESS_LEVEL_MEDIUM * Scale * 10
            THEN "medium"
            ELSE "low"]

\* The weighted sum is computed in thousandths of a point, where it is
\* exact for a quiz score given in hundredths; the awareness level is taken
\* from that sum, the overall_score returned is round(sum, 2).
calculate_overall_awareness(email_risk, quiz_score) ==
    LET email_behavior_score ==
            IF email_risk.clicked_link
            THEN 60 - email_risk.time_to_click_risk ELSE 100
        weighted == quiz_score * 4 + email_behavior_score * Scale * 6
        overall_score == IF weighted < 0 THEN 0
                         ELSE IF weighted > 100 * Scale * 10
                         THEN 100 * Scale * 10 ELSE weighted
    IN  [overall_score |-> (overall_score + 5) \div 10,
         email_behavior_score |-> email_behavior_score,
         awareness_level |->
            IF overall_score >= AWARENESS_LEVEL_HIGH * Scale * 10
            THEN "high"
            ELSE IF overall_score >= AWARENESS_LEVEL_MEDIUM * Scale * 10
            THEN "medium"
            ELSE "low"]

\* the high-risk cut taken at 60
calculate_risk_level_cut60(awareness_metrics) ==
    IF awareness_metrics.overall_score >= 75 * Scale THEN "low"
    ELSE IF awareness_metrics.overall_score >= 60 * Scale THEN "medium"
    ELSE "high"

calculate_risk_level(awareness_metrics) ==
    IF awareness_metrics.overall_score >= 75 * Scale THEN "low"
    ELSE IF awareness_metrics.overall_score >= 50 * Scale THEN "medium"
    ELSE "high"

calculate_score(ce_id, ces, quizzes) ==
    LET email_risk == calculate_email_risk(ces[ce_id])
        quiz_score == calculate_quiz_awareness_score(ce_id, quizzes)
        awareness_metrics == calculate_overall_awareness(email_risk,
                                                         quiz_score)
    IN  [email_risk |-> email_risk, quiz_score |-> quiz_score,
         awareness_metrics |-> awareness_metrics,
         risk_level |-> calculate_risk_level(awareness_metrics)]

\* the existing row never looked up: every call inserts
FindRiskScore_none(ce_id, scores) ==
    First({})

\* RiskScore.query.filter_by(campaign_employee_id=...).first()
FindRiskScore(ce_id, scores) ==
    First({i \in 1..Len(scores) : scores[i].campaign_employee_id = ce_id})

\* calculate_and_save_risk_score: the risk_score table after the call.
\* score_id is a uuid4(), named here by the row's id; calculated_at is the
\* column default, set when the row is inserted.
calculate_and_save_risk_score(ce_id, ok, ces, quizzes, scores) ==
    LET scoring == calculate_score(ce_id, ces, quizzes)
        found == FindRiskScore(ce_id, scores)
        old == IF found = 0
               THEN [score_id |-> Len(scores) + 1,
                     campaign_id |-> ces[ce_id].campaign_id,
                     employee_id |-> ces[ce_id].employee_id,
                     campaign_employee_id |-> ce_id,
                     calculated_at |-> now]
               ELSE scores[found]
        row == [score_id |-> old.score_id,
                campaign_id |-> old.campaign_id,
                employee_id |-> old.employee_id,
                campaign_employee_id |-> old.campaign_employee_id,
                clicked_link |-> scoring.email_risk.clicked_link,
                click_time_minutes |-> scoring.email_risk.click_time_minutes,
                quiz_score |-> scoring.quiz_score,
                overall_awareness_level |->
                    scoring.awareness_metrics.awareness_level,
                risk_level |-> scoring.risk_level,
                calculated_at |-> old.calculated_at,
                updated_at |-> now]
    IN  IF ~ok THEN scores
        ELSE IF found = 0 THEN Append(scores, row)
        ELSE [scores EXCEPT ![found] = row]

\* ---------------------------------------------------------------- submit
\* the recompute run whether or not the quiz save succeeded
submit_quiz_alwaysScore(cid, token, answers, ok1, ok2) ==
    LET ce_id == FindEnrollment(cid, token, campaign_employee)
    IN  /\ UNCHANGED <<campaign, employee, click_tracking, now, ticks, requests>>
        /\ IF cid \notin DOMAIN campaign \/ ce_id = 0
           THEN /\ result' = Outcome("submit_quiz", FALSE, NULL,
                                     "Invalid campaign or employee", 404)
                /\ UNCHANGED <<campaign_employee, quiz_result, risk_score>>
           ELSE LET saved == save_quiz_result(
                                cid, campaign_employee[ce_id].employee_id,
                                campaign[cid].phishing_type, answers, ok1,
                                campaign_employee, quiz_result)
                IN  /\ campaign_employee' = saved.campaign_employee
                    /\ quiz_result' = saved.quiz_result
                    /\ risk_score' = calculate_and_save_risk_score(
                            ce_id, ok2, saved.campaign_employee,
                            saved.quiz_result, risk_score)
                    /\ result' = Outcome("submit_quiz", saved.success, NULL,
                                         saved.message,
                                         IF saved.success THEN 200 ELSE 400)

submit_quiz(cid, token, answers, ok1, ok2) ==
    LET ce_id == FindEnrollment(cid, token, campaign_employee)
    IN  /\ UNCHANGED <<campaign, employee, click_tracking, now, ticks, requests>>
        /\ IF cid \notin DOMAIN campaign
           THEN /\ result' = Outcome("submit_quiz", FALSE, NULL,
                                     "'NoneType' object has no attribute 'id'",
                                     500)
                /\ UNCHANGED <<campaign_employee, quiz_result, risk_score>>
           ELSE IF ce_id = 0
           THEN /\ result' = Outcome("submit_quiz", FALSE, NULL,
                                     "Invalid campaign or employee", 404)
                /\ UNCHANGED <<campaign_employee, quiz_result, risk_score>>
           ELSE LET saved == save_quiz_result(
                                cid, campaign_employee[ce_id].employee_id,
                                campaign[cid].phishing_type, answers, ok1,
                                campaign_employee, quiz_result)
                IN  /\ campaign_employee' = saved.campaign_employee
                    /\ quiz_result' = saved.quiz_result
                    /\ IF saved.success
                       THEN /\ risk_score' = calculate_and_save_risk_score(
                                    ce_id, ok2, saved.campaign_employee,
                                    saved.quiz_result, risk_score)
                            /\ result' = Outcome("submit_quiz", TRUE, NULL,
                                     "Quiz submitted successfully", 200)
                       ELSE /\ UNCHANGED risk_score
                            /\ result' = Outcome("submit_quiz", FALSE, NULL,
                                                 saved.message, 400)

\* ---------------------------------------------------------------- spec
EmailLists == UNION {[1..n -> Employees] : n \in 1..MaxBatch}

\* uuid4() values are opaque: a new one is named by the least number not
\* yet handed out, a colliding one by the number it collides with.
TokenOrder(uuids) ==
    \A i \in 1..Len(uuids) :
        LET seen == {campaign_employee[k].tracking_token :
                        k \in 1..Len(campaign_employee)}
                    \cup {uuids[j] : j \in 1..(i - 1)}
        IN  \/ uuids[i] \in seen
            \/ Tokens \ seen # {} /\ uuids[i] = Min(Tokens \ seen)

\* Answer sheets: every option 1 (3 of 5 right on credential_harvesting,
\* 5 of 5 on malware), and the credential_harvesting key.
AllOnes == Sheet([i \in {"q1", "q2", "q3", "q4", "q5"} |-> 1])
CredKey == Sheet([i \in {"q1", "q2", "q3", "q4", "q5"} |->
                     IF i = "q4" THEN 0 ELSE IF i = "q5" THEN 2 ELSE 1])

\* Inputs that differ only where the handler never looks are tried once.
QuizInputs(answers, ok1, ok2) ==
    /\ ~ok1 => ok2
    /\ ~answers.present => ok1 /\ ok2

Enroll ==
    \E cid \in CampaignIds, emails \in EmailLists, ok \in BOOLEAN :
       \E uuids \in [1..Len(emails) -> Tokens] :
          /\ TokenOrder(uuids)
          /\ add_employees_to_campaign(cid, emails, uuids, ok)

Dispatch ==
    \E cid \in CampaignIds, ok \in BOOLEAN :
       \E delivered \in SUBSET (1..Len(campaign_employee)) :
          send_campaign_emails(cid, delivered, ok)

Click(maxClicks) ==
    \E cid \in CampaignIds, token \in TokenInputs, ok \in BOOLEAN :
       /\ track_click(cid, token, ok)
       /\ Len(click_tracking') <= maxClicks

Submit(maxQuiz, sheets) ==
    \E cid \in CampaignIds, token \in TokenInputs,
       answers \in sheets, ok1 \in BOOLEAN, ok2 \in BOOLEAN :
       /\ QuizInputs(answers, ok1, ok2)
       /\ submit_quiz(cid, token, answers, ok1, ok2)
       /\ Len(quiz_result') <= maxQuiz

InitWith(cs) ==
    /\ campaign = [c \in cs |-> NewCampaign(c)]
    /\ employee = {}
    /\ campaign_employee = <<>>
    /\ click_tracking = <<>>
    /\ quiz_result = <<>>
    /\ risk_score = <<>>
    /\ now = 0
    /\ ticks = 0
    /\ requests = <<>>
    /\ result = Outcome("none", FALSE, NULL, "", NULL)

\* One campaign and one employee: the whole life of one enrollment.
Init == InitWith({"c1"})

Next ==
    \/ \E d \in Delays : Tick(d)
    \/ Enroll
    \/ Dispatch
    \/ Click(MaxClicks)
    \/ Submit(MaxQuiz, {AllOnes, CredKey, NoAnswers})

Spec == Init /\ [][Next]_vars

\* Two campaigns with one enrollment each.
InitTwo == InitWith({"c1", "c2"})

NextTwo ==
    \/ \E d \in Delays : Tick(d)
    \/ Enroll
    \/ Dispatch
    \/ Click(MaxClicksTwo)
    \/ Submit(MaxQuizTwo, {AllOnes, NoAnswers})

SpecTwo == InitTwo /\ [][NextTwo]_vars

\* ------------------------------------------------- grading, on its own
\* validate_quiz_answer applied to one answer sheet: the initial state
\* holds the arguments of the call, Validate replaces them by the result.
AnswerKeys == {"q1", "q2", "q3", "q4", "q5", "q9"}

AnswerSheets ==
    {Sheet(m) : m \in UNION {[K -> 0..MaxOption] : K \in SUBSET AnswerKeys}}
        \cup {NoAnswers}

PhishingTypes ==
    {"credential_harvesting", "malware", "urgent_action", "other"}

Validate ==
    /\ result.op = "call"
    /\ result' = [op |-> "validate_quiz_answer",
                  answer_data |-> result.answer_data,
                  phishing_type |-> result.phishing_type,
                  ret |-> validate_quiz_answer(result.answer_data,
                                               result.phishing_type)]
    /\ UNCHANGED <<tables, now, ticks, requests>>

InitGrade ==
    /\ campaign = <<>>
    /\ employee = {}
    /\ campaign_employee = <<>>
    /\ click_tracking = <<>>
    /\ quiz_result = <<>>
    /\ risk_score = <<>>
    /\ now = 0
    /\ ticks = 0
    /\ requests = <<>>
    /\ \E answer_data \in AnswerSheets, ptype \in PhishingTypes :
          result = [op |-> "call", answer_data |-> answer_data,
                    phishing_type |-> ptype]

GetQuestions ==
    /\ result.op = "call"
    /\ result' = [op |-> "get_quiz_questions",
                  phishing_type |-> result.phishing_type,
                  ret |-> get_quiz_questions(result.phishing_type)]
    /\ UNCHANGED <<tables, now, ticks, requests>>

NextGrade == Validate \/ GetQuestions

SpecGrade == InitGrade /\ [][NextGrade]_vars

\* ------------------------------------------- save_quiz_result, on its own
\* save_quiz_result called for any campaign id and employee id, as the
\* quiz module offers it, next to the routes that make the enrollments.
EmployeeInputs == Employees \cup {"eX"}

SaveResult(maxQuiz) ==
    \E cid \in CampaignIds, employee_id \in EmployeeInputs,
       answers \in {AllOnes, NoAnswers}, ok \in BOOLEAN :
       LET saved == save_quiz_result(
                       cid, employee_id,
                       IF cid \in DOMAIN campaign
                       THEN campaign[cid].phishing_type ELSE "other",
                       answers, ok, campaign_employee, quiz_result)
       IN  /\ ~answers.present => ok
           /\ campaign_employee' = saved.campaign_employee
           /\ quiz_result' = saved.quiz_result
           /\ Len(quiz_result') <= maxQuiz
           /\ result' = [Outcome("save_quiz_result", saved.success, NULL,
                                 saved.message, NULL)
                         EXCEPT !.count = Len(saved.quiz_result)]
           /\ UNCHANGED <<campaign, employee, click_tracking, risk_score,
                          now, ticks, requests>>

NextSave ==
    \/ Enroll
    \/ Dispatch
    \/ Click(MaxClicksSave)
    \/ SaveResult(MaxQuizSave)

SpecSave == InitTwo /\ [][NextSave]_vars

\* -------------------------------------------------- scoring, on its own
\* calculate_score applied to one enrollment: the initial state holds the
\* enrollment and its quiz_result row, if any; Score puts the result of
\* the call in result.  The gaps between dispatch and click sit on both
\* sides of every breakpoint of calculate_email_risk.
ClickGaps == {0, 59, 60, 299, 300, 1799, 1800, 3599, 3600, 7200}

SentTimes == {NULL, 0, 30}

QuizScores == {NULL} \cup {20 * n * Scale : n \in 0..5}

ScoredEnrollment(sent, clicked_at, quiz) ==
    [campaign_id |-> "c1", employee_id |-> "e1", tracking_token |-> 1,
     email_sent_at |-> sent, clicked |-> (clicked_at # NULL),
     clicked_at |-> clicked_at,
     status |-> IF quiz # NULL THEN "completed"
                ELSE IF clicked_at # NULL THEN "clicked"
                ELSE IF sent # NULL THEN "sent" ELSE "pending"]

InitScore ==
    /\ campaign = [c \in {"c1"} |-> NewCampaign(c)]
    /\ employee = {"e1"}
    /\ \E sent \in SentTimes, quiz \in QuizScores :
          \E clicked_at \in {NULL} \cup
                {(IF sent = NULL THEN 0 ELSE sent) + g : g \in ClickGaps} :
             /\ campaign_employee =
                   <<ScoredEnrollment(sent, clicked_at, quiz)>>
             /\ quiz_result =
                   IF quiz = NULL THEN <<>>
                   ELSE <<[campaign_id |-> "c1", employee_id |-> "e1",
                           campaign_employee_id |-> 1,
                           total_questions |-> 5,
                           correct_answers |-> quiz \div (20 * Scale),
                           score |-> quiz,
                           passed |-> (quiz >= 70 * Scale)]>>
             /\ click_tracking =
                   IF clicked_at = NULL THEN <<>>
                   ELSE <<[campaign_id |-> "c1", employee_id |-> "e1",
                           campaign_employee_id |-> 1,
                           clicked_at |-> clicked_at]>>
    /\ risk_score = <<>>
    /\ now = 0
    /\ ticks = 0
    /\ requests = <<>>
    /\ result = [op |-> "call"]

Score ==
    /\ result.op = "call"
    /\ result' = [op |-> "calculate_score",
                  ret |-> calculate_score(1, campaign_employee, quiz_result)]
    /\ UNCHANGED <<tables, now, ticks, requests>>

\* calculate_and_save_risk_score(1) with its commit going through
SaveScore ==
    /\ result.op = "call"
    /\ risk_score' = calculate_and_save_risk_score(
                         1, TRUE, campaign_employee, quiz_result, risk_score)
    /\ result' = [op |-> "calculate_and_save_risk_score"]
    /\ UNCHANGED <<campaign, employee, campaign_employee, click_tracking,
                   quiz_result, now, ticks, requests>>

NextScore == Score \/ SaveScore

SpecScore == InitScore /\ [][NextScore]_vars

\* ------------------------------------------- the two levels, on their own
\* calculate_overall_awareness and calculate_risk_level applied to one
\* email-risk dict and one quiz score, any number of hundredths of a point
\* from 0 to 100 points.
EmailRisks ==
    {[clicked_link |-> FALSE, click_time_minutes |-> NULL,
      time_to_click_risk |-> 0]}
    \cup {[clicked_link |-> TRUE, click_time_minutes |-> NULL,
           time_to_click_risk |-> p] : p \in {0, 10, 15, 20, 25, 30}}

InitLevels ==
    /\ campaign = <<>>
    /\ employee = {}
    /\ campaign_employee = <<>>
    /\ click_tracking = <<>>
    /\ quiz_result = <<>>
    /\ risk_score = <<>>
    /\ now = 0
    /\ ticks = 0
    /\ requests = <<>>
    /\ \E email_risk \in EmailRisks, quiz_score \in 0..(100 * Scale) :
          result = [op |-> "call", email_risk |-> email_risk,
                    quiz_score |-> quiz_score]

Levels ==
    /\ result.op = "call"
    /\ LET awareness_metrics ==
              calculate_overall_awareness(result.email_risk,
                                          result.quiz_score)
       IN  result' = [op |-> "calculate_risk_level",
                      email_risk |-> result.email_risk,
                      quiz_score |-> result.quiz_score,
                      awareness_metrics |-> awareness_metrics,
                      risk_level |-> calculate_risk_level(awareness_metrics)]
    /\ UNCHANGED <<tables, now, ticks, requests>>

NextLevels == Levels

SpecLevels == InitLevels /\ [][NextLevels]_vars

\* ------------------------------------------- track_click, calls overlapping
\* Each request runs track_click in its own thread and session: the two
\* lookups and the re-click check are one step, the writes with their
\* commit another, and other requests may run in between.
Racers == 1..MaxRacers

\* lines 121-145 of track_click: the lookups and the re-click check
click_read(r, cid, token) ==
    LET ce_id == FindEnrollment(cid, token, campaign_employee)
    IN  /\ requests[r].pc = "start"
        /\ UNCHANGED <<tables, now, ticks>>
        /\ IF cid \notin DOMAIN campaign
           THEN /\ requests' = [requests EXCEPT ![r].pc = "done"]
                /\ result' = Outcome("track_click", FALSE, 404,
                                     "Campaign not found", 404)
           ELSE IF ce_id = 0
           THEN /\ requests' = [requests EXCEPT ![r].pc = "done"]
                /\ result' = Outcome("track_click", FALSE, 404,
                                     "Invalid tracking link", 404)
           ELSE IF AlreadyClicked(campaign_employee[ce_id])
           THEN /\ requests' = [requests EXCEPT ![r].pc = "done"]
                /\ result' = [Outcome("track_click", TRUE, NULL,
                                      "Click already recorded", 302)
                              EXCEPT !.already_clicked = TRUE]
           ELSE /\ requests' = [requests EXCEPT
                                   ![r] = [pc |-> "write", cid |-> cid,
                                           ce_id |-> ce_id]]
                /\ UNCHANGED result

\* lines 147-194 of track_click: the ClickTracking row, the update of the
\* enrollment and the commit, or the rollback when the commit fails
click_write(r, ok) ==
    /\ requests[r].pc = "write"
    /\ requests' = [requests EXCEPT ![r].pc = "done"]
    /\ UNCHANGED <<campaign, employee, quiz_result, risk_score, now, ticks>>
    /\ IF ok
       THEN LET w == FirstClick(campaign_employee, click_tracking,
                                requests[r].ce_id, requests[r].cid, now)
            IN  /\ campaign_employee' = w.campaign_employee
                /\ click_tracking' = w.click_tracking
                /\ result' = Outcome("track_click", TRUE, NULL,
                                     "Click recorded successfully", 302)
       ELSE /\ result' = Outcome("track_click", FALSE, 500, "Error", 404)
            /\ UNCHANGED <<campaign_employee, click_tracking>>

\* One enrollment, its e-mail dispatched, and no click yet.
InitRace ==
    /\ campaign = [c \in {"c1"} |-> NewCampaign(c)]
    /\ employee = {"e1"}
    /\ campaign_employee =
          <<[campaign_id |-> "c1", employee_id |-> "e1",
             tracking_token |-> 1, email_sent_at |-> 0, clicked |-> FALSE,
             clicked_at |-> NULL, status |-> "sent"]>>
    /\ click_tracking = <<>>
    /\ quiz_result = <<>>
    /\ risk_score = <<>>
    /\ now = 0
    /\ ticks = 0
    /\ result = Outcome("none", FALSE, NULL, "", NULL)
    /\ requests = [r \in Racers |-> [pc |-> "start", cid |-> "c1",
                                     ce_id |-> 0]]

NextRace ==
    \/ \E d \in Delays : Tick(d)
    \/ \E r \in Racers, cid \in CampaignIds, token \in TokenInputs :
          click_read(r, cid, token)
    \/ \E r \in Racers, ok \in BOOLEAN : click_write(r, ok)

SpecRace == InitRace /\ [][NextRace]_vars

\* ------------------------------------------------------ awareness portal
\* awareness_portal reads only; message is the title of the page rendered.
awareness_portal(cid, token) ==
    LET ce_id == FindEnrollment(cid, token, campaign_employee)
    IN  /\ UNCHANGED <<tables, now, ticks, requests>>
        /\ result' =
              IF cid \notin DOMAIN campaign
              THEN Outcome("awareness_portal", FALSE, NULL,
                           "Campaign Not Found", 404)
              ELSE IF ce_id = 0
              THEN Outcome("awareness_portal", FALSE, NULL,
                           "Invalid Link", 404)
              ELSE Outcome("awareness_portal", TRUE, NULL,
                           "awareness/portal.html", 200)

Portal ==
    \E cid \in CampaignIds, token \in TokenInputs :
       awareness_portal(cid, token)

NextPortal ==
    \/ Enroll
    \/ Dispatch
    \/ Click(MaxClicksTwo)
    \/ Portal

SpecPortal == InitTwo /\ [][NextPortal]_vars

\* ------------------------------------------------------- campaign summary
\* round(num / den, 0) as Python rounds: to the nearest whole number, a
\* tie to the even one.
RoundHalfEven(num, den) ==
    LET q == num \div den
        r == num % den
    IN  IF 2 * r > den THEN q + 1
        ELSE IF 2 * r < den THEN q
        ELSE IF q % 2 = 0 THEN q ELSE q + 1

RECURSIVE SumQuizScore(_, _)
SumQuizScore(scores, S) ==
    IF S = {} THEN 0
    ELSE LET k == Min(S)
         IN  scores[k].quiz_score + SumQuizScore(scores, S \ {k})

\* every campaign's rows counted
ScoresOfCampaign_all(cid, scores) ==
    1..Len(scores)

\* RiskScore.query.filter_by(campaign_id=campaign.id).all()
ScoresOfCampaign(cid, scores) ==
    {k \in 1..Len(scores) : scores[k].campaign_id = cid}

\* get_campaign_risk_summary: percentages and the average are in
\* hundredths, as round(x, 2) leaves them.
get_campaign_risk_summary(cid, scores) ==
    LET risk_scores == ScoresOfCampaign(cid, scores)
        total == Cardinality(risk_scores)
        Count(P(_)) == Cardinality({k \in risk_scores : P(scores[k])})
        high_awareness ==
            Count(LAMBDA r : r.overall_awareness_level = "high")
        clicked == Count(LAMBDA r : r.clicked_link)
    IN  IF cid \notin DOMAIN campaign
        THEN [success |-> FALSE, message |-> "Campaign not found"]
        ELSE IF total = 0
        THEN [total_employees |-> 0, high_awareness |-> 0,
              medium_awareness |-> 0, low_awareness |-> 0,
              high_risk |-> 0, medium_risk |-> 0, low_risk |-> 0,
              click_rate |-> 0, average_awareness_score |-> 0]
        ELSE [total_employees |-> total,
              high_awareness |-> high_awareness,
              medium_awareness |->
                 Count(LAMBDA r : r.overall_awareness_level = "medium"),
              low_awareness |->
                 Count(LAMBDA r : r.overall_awareness_level = "low"),
              high_awareness_percentage |->
                 RoundHalfEven(high_awareness * 100 * Scale, total),
              high_risk |-> Count(LAMBDA r : r.risk_level = "high"),
              medium_risk |-> Count(LAMBDA r : r.risk_level = "medium"),
              low_risk |-> Count(LAMBDA r : r.risk_level = "low"),
              click_rate_percentage |->
                 RoundHalfEven(clicked * 100 * Scale, total),
              average_quiz_score |->
                 RoundHalfEven(SumQuizScore(scores, risk_scores), total)]

\* The tables after MaxScored employees at most were enrolled in the two
\* campaigns, some clicked, and each submitted one quiz.
ScoredEmployees == <<"e1", "e2", "e3", "e4", "e5">>

SummaryQuizScores == {0, 60 * Scale, 100 * Scale}

RECURSIVE RecomputeAll(_, _, _)
RecomputeAll(n, ces, quizzes) ==
    IF n = 0 THEN <<>>
    ELSE calculate_and_save_risk_score(
             n, TRUE, ces, quizzes, RecomputeAll(n - 1, ces, quizzes))

InitSummary ==
    /\ campaign = [c \in {"c1", "c2"} |-> NewCampaign(c)]
    /\ now = 0
    /\ ticks = 0
    /\ requests = <<>>
    /\ result = [op |-> "call"]
    /\ \E n \in 0..MaxScored :
          \E cs \in [1..n -> {"c1", "c2"}], clicks \in [1..n -> BOOLEAN],
             quiz \in [1..n -> SummaryQuizScores] :
             /\ employee = {ScoredEmployees[i] : i \in 1..n}
             /\ campaign_employee =
                   [i \in 1..n |->
                      [campaign_id |-> cs[i],
                       employee_id |-> ScoredEmployees[i],
                       tracking_token |-> i, email_sent_at |-> 0,
                       clicked |-> clicks[i],
                       clicked_at |-> IF clicks[i] THEN 0 ELSE NULL,
                       status |-> "completed"]]
             /\ click_tracking = <<>>
             /\ quiz_result =
                   [i \in 1..n |->
                      [campaign_id |-> cs[i],
                       employee_id |-> ScoredEmployees[i],
                       campaign_employee_id |-> i, total_questions |-> 5,
                       correct_answers |-> quiz[i] \div (20 * Scale),
                       score |-> quiz[i],
                       passed |-> (quiz[i] >= 70 * Scale)]]
             /\ risk_score = RecomputeAll(n, campaign_employee, quiz_result)

Summary ==
    /\ result.op = "call"
    /\ \E cid \in CampaignIds :
          result' = [op |-> "get_campaign_risk_summary",
                     campaign_id |-> cid,
                     ret |-> get_campaign_risk_summary(cid, risk_score)]
    /\ UNCHANGED <<tables, now, ticks, requests>>

NextSummary == Summary

SpecSummary == InitSummary /\ [][NextSummary]_vars

\* ---------------------------------------------------- user-agent parsing
\* A User-Agent header is the set of the signatures its lower-cased text
\* contains; present = FALSE is a request without the header (None).  The
\* browser_version, a regular-expression match on the text, is left out.
Signatures ==
    {"chrome", "safari", "firefox", "edge", "windows", "mac", "linux",
     "iphone", "ipad", "android", "mobile", "tablet"}

UserAgents ==
    {[present |-> TRUE, sigs |-> S] : S \in SUBSET Signatures}
        \cup {[present |-> FALSE, sigs |-> {}]}

\* ua_lower = user_agent.lower() if user_agent else ''
ua_lower(user_agent) ==
    IF user_agent.present THEN user_agent.sigs ELSE {}

parse_device_info(user_agent) ==
    LET ua == ua_lower(user_agent)
    IN  [browser |->
            IF "chrome" \in ua THEN "Chrome"
            ELSE IF "safari" \in ua /\ "chrome" \notin ua THEN "Safari"
            ELSE IF "firefox" \in ua THEN "Firefox"
            ELSE IF "edge" \in ua THEN "Edge"
            ELSE "Unknown",
         os |->
            IF "windows" \in ua THEN "Windows"
            ELSE IF "mac" \in ua THEN "macOS"
            ELSE IF "linux" \in ua THEN "Linux"
            ELSE IF "iphone" \in ua \/ "ipad" \in ua THEN "iOS"
            ELSE IF "android" \in ua THEN "Android"
            ELSE "Unknown"]

\* the tablet signatures looked for first
get_device_type_tabletFirst(user_agent) ==
    LET ua == ua_lower(user_agent)
    IN  IF "ipad" \in ua \/ "tablet" \in ua THEN "tablet"
        ELSE IF "mobile" \in ua \/ "android" \in ua THEN "mobile"
        ELSE "desktop"

get_device_type(user_agent) ==
    LET ua == ua_lower(user_agent)
    IN  IF "mobile" \in ua \/ "android" \in ua THEN "mobile"
        ELSE IF "ipad" \in ua \/ "tablet" \in ua THEN "tablet"
        ELSE "desktop"

InitDevice ==
    /\ campaign = <<>>
    /\ employee = {}
    /\ campaign_employee = <<>>
    /\ click_tracking = <<>>
    /\ quiz_result = <<>>
    /\ risk_score = <<>>
    /\ now = 0
    /\ ticks = 0
    /\ requests = <<>>
    /\ \E user_agent \in UserAgents :
          result = [op |-> "call", user_agent |-> user_agent]

ParseDevice ==
    /\ result.op = "call"
    /\ result' = [op |-> "parse_device_info",
                  user_agent |-> result.user_agent,
                  device_info |-> parse_device_info(result.user_agent),
                  device_type |-> get_device_type(result.user_agent)]
    /\ UNCHANGED <<tables, now, ticks, requests>>

NextDevice == ParseDevice

SpecDevice == InitDevice /\ [][NextDevice]_vars

\* ------------------------------------------------ grading under a config
\* Config.QUIZ_PASS_SCORE as a deployment may set it; 70 is the value in
\* the repository.
QuizPassScores == {60, 70, 80}

InitConfig ==
    /\ campaign = <<>>
    /\ employee = {}
    /\ campaign_employee = <<>>
    /\ click_tracking = <<>>
    /\ quiz_result = <<>>
    /\ risk_score = <<>>
    /\ now = 0
    /\ ticks = 0
    /\ requests = <<>>
    /\ \E answer_data \in AnswerSheets, ptype \in PhishingTypes,
          pass_score \in QuizPassScores :
          result = [op |-> "configured", QUIZ_PASS_SCORE |-> pass_score,
                    answer_data |-> answer_data, phishing_type |-> ptype]

\* validate_quiz_answer run in a process whose Config holds QUIZ_PASS_SCORE;
\* the function does not read Config.
ValidateConfigured ==
    /\ result.op = "configured"
    /\ result' = [op |-> "validate_quiz_answer",
                  QUIZ_PASS_SCORE |-> result.QUIZ_PASS_SCORE,
                  answer_data |-> result.answer_data,
                  phishing_type |-> result.phishing_type,
                  ret |-> validate_quiz_answer(result.answer_data,
                                               result.phishing_type)]
    /\ UNCHANGED <<tables, now, ticks, requests>>

NextConfig == ValidateConfigured

SpecConfig == InitConfig /\ [][NextConfig]_vars

\* ------------------------------------------- dispatch racing with a click
\* One send_campaign_emails request, taken apart into the query for the
\* pending enrollments, one pass of the loop per enrollment and the commit,
\* runs against track_click requests.  requests holds the dispatcher's
\* session: todo are the enrollments the loop has still to visit, sent maps
\* each enrollment whose e-mail went out to the email_sent_at set on it,
\* failed_count counts the sends that failed.
Pending(employee_id, token) ==
    [campaign_id |-> "c1", employee_id |-> employee_id,
     tracking_token |-> token, email_sent_at |-> NULL, clicked |-> FALSE,
     clicked_at |-> NULL, status |-> "pending"]

InitDispatchRace ==
    /\ campaign = [c \in {"c1"} |-> NewCampaign(c)]
    /\ employee = {"e1", "e2"}
    /\ campaign_employee = <<Pending("e1", 1), Pending("e2", 2)>>
    /\ click_tracking = <<>>
    /\ quiz_result = <<>>
    /\ risk_score = <<>>
    /\ now = 0
    /\ ticks = 0
    /\ result = Outcome("none", FALSE, NULL, "", NULL)
    /\ requests = [pc |-> "start", cid |-> "c1", todo |-> {}, sent |-> <<>>,
                   failed_count |-> 0]

\* campaigns.py 176-185: the campaign lookup and the pending query
dispatch_read(cid) ==
    /\ requests.pc = "start"
    /\ UNCHANGED <<tables, now, ticks>>
    /\ IF cid \notin DOMAIN campaign
       THEN /\ requests' = [requests EXCEPT !.pc = "done"]
            /\ result' = Outcome("send_emails", FALSE, NULL,
                                 "Campaign not found", 404)
       ELSE /\ requests' = [requests EXCEPT
                               !.pc = "send", !.cid = cid,
                               !.todo = PendingOf(cid, campaign_employee)]
            /\ UNCHANGED result

\* campaigns.py 190-201: one pass of the loop; the assignments stay in the
\* session until the commit
dispatch_send(delivered) ==
    /\ requests.pc = "send"
    /\ requests.todo # {}
    /\ LET ce_id == Min(requests.todo)
       IN  requests' =
              [requests EXCEPT
                  !.todo = @ \ {ce_id},
                  !.sent = IF delivered
                           THEN [i \in DOMAIN @ \cup {ce_id} |->
                                    IF i = ce_id THEN now ELSE @[i]]
                           ELSE @,
                  !.failed_count = IF delivered THEN @ ELSE @ + 1]
    /\ UNCHANGED <<tables, now, ticks, result>>

\* campaigns.py 203-219: the commit writes the columns the loop assigned,
\* email_sent_at and status, of the rows it assigned them on
dispatch_commit(ok) ==
    /\ requests.pc = "send"
    /\ requests.todo = {}
    /\ requests' = [requests EXCEPT !.pc = "done"]
    /\ UNCHANGED <<employee, click_tracking, quiz_result, risk_score,
                   now, ticks>>
    /\ IF ok
       THEN /\ campaign_employee' =
                  [i \in 1..Len(campaign_employee) |->
                      IF i \in DOMAIN requests.sent
                      THEN [campaign_employee[i] EXCEPT
                               !.email_sent_at = requests.sent[i],
                               !.status = "sent"]
                      ELSE campaign_employee[i]]
            /\ campaign' =
                  IF DOMAIN requests.sent # {}
                  THEN [campaign EXCEPT ![requests.cid].status = "sent"]
                  ELSE campaign
            /\ result' =
                  [Outcome("send_emails",
                           DOMAIN requests.sent # {}
                              \/ requests.failed_count = 0,
                           NULL, "Sent emails", 200)
                   EXCEPT !.count = Cardinality(DOMAIN requests.sent)]
       ELSE /\ UNCHANGED <<campaign, campaign_employee>>
            /\ result' = Outcome("send_emails", FALSE, NULL,
                                 "commit failed", 500)

\* A track_click request for a link that was mailed: the token reaches the
\* employee in the e-mail only.
ClickMailed ==
    \E cid \in CampaignIds, token \in Tokens, ok \in BOOLEAN :
       /\ \E i \in 1..Len(campaign_employee) :
             /\ campaign_employee[i].tracking_token = token
             /\ \/ campaign_employee[i].email_sent_at # NULL
                \/ i \in DOMAIN requests.sent
       /\ track_click(cid, token, ok)

NextDispatchRace ==
    \/ \E d \in Delays : Tick(d)
    \/ \E cid \in CampaignIds : dispatch_read(cid)
    \/ \E delivered \in BOOLEAN : dispatch_send(delivered)
    \/ \E ok \in BOOLEAN : dispatch_commit(ok)
    \/ ClickMailed

SpecDispatchRace == InitDispatchRace /\ [][NextDispatchRace]_vars

\* ------------------------------------------------ recompute racing itself
\* Two calculate_and_save_risk_score calls for enrollment 1, each taken
\* apart into its lookup of the RiskScore row and its write.  The table has
\* no unique constraint on campaign_employee_id; score_id, the one unique
\* column, is a fresh uuid4() on every insert.
Scorers == {1, 2}

InitScoreRace ==
    /\ campaign = [c \in {"c1"} |-> NewCampaign(c)]
    /\ employee = {"e1"}
    /\ \E quiz \in QuizScores \ {NULL} :
          /\ campaign_employee = <<ScoredEnrollment(0, 0, quiz)>>
          /\ quiz_result =
                <<[campaign_id |-> "c1", employee_id |-> "e1",
                   campaign_employee_id |-> 1, total_questions |-> 5,
                   correct_answers |-> quiz \div (20 * Scale),
                   score |-> quiz, passed |-> (quiz >= 70 * Scale)]>>
    /\ click_tracking =
          <<[campaign_id |-> "c1", employee_id |-> "e1",
             campaign_employee_id |-> 1, clicked_at |-> 0]>>
    /\ risk_score = <<>>
    /\ now = 0
    /\ ticks = 0
    /\ result = Outcome("none", FALSE, NULL, "", NULL)
    /\ requests = [r \in Scorers |-> [pc |-> "start", found |-> 0]]

\* risk_scoring.py 189-203: the scoring and the lookup of the row
score_read(r) ==
    /\ requests[r].pc = "start"
    /\ requests' = [requests EXCEPT
                       ![r] = [pc |-> "write",
                               found |-> FindRiskScore(1, risk_score)]]
    /\ UNCHANGED <<tables, now, ticks, result>>

\* risk_scoring.py 205-242: a new row when the lookup found none, else the
\* update of the row found; add and commit, or rollback
score_write(r, ok) ==
    /\ requests[r].pc = "write"
    /\ requests' = [requests EXCEPT ![r].pc = "done"]
    /\ UNCHANGED <<campaign, employee, campaign_employee, click_tracking,
                   quiz_result, now, ticks>>
    /\ LET found == requests[r].found
           fresh == calculate_and_save_risk_score(
                        1, TRUE, campaign_employee, quiz_result, <<>>)[1]
           updated == calculate_and_save_risk_score(
                          1, TRUE, campaign_employee, quiz_result,
                          risk_score)
       IN  IF ~ok
           THEN /\ UNCHANGED risk_score
                /\ result' = Outcome("calculate_and_save_risk_score",
                                     FALSE, NULL, "Error", NULL)
           ELSE /\ risk_score' =
                      IF found = 0
                      THEN Append(risk_score,
                                  [fresh EXCEPT
                                      !.score_id = Len(risk_score) + 1])
                      ELSE [risk_score EXCEPT ![found] = updated[found]]
                /\ result' = Outcome("calculate_and_save_risk_score",
                                     TRUE, NULL, "", NULL)

NextScoreRace ==
    \/ \E d \in Delays : Tick(d)
    \/ \E r \in Scorers : score_read(r)
    \/ \E r \in Scorers, ok \in BOOLEAN : score_write(r, ok)

SpecScoreRace == InitScoreRace /\ [][NextScoreRace]_vars

\* ------------------------------------------------------- click statistics
\* get_click_statistics: "" is an argument left out or empty (falsy); a
\* filter is added to the query only when the argument names an existing
\* row.
get_click_statistics(campaign_id, employee_id, clicks) ==
    LET byCampaign ==
            IF campaign_id # "" /\ campaign_id \in DOMAIN campaign
            THEN {k \in 1..Len(clicks) : clicks[k].campaign_id = campaign_id}
            ELSE 1..Len(clicks)
        byEmployee ==
            IF employee_id # "" /\ employee_id \in employee
            THEN {k \in byCampaign : clicks[k].employee_id = employee_id}
            ELSE byCampaign
    IN  [total_clicks |-> Cardinality(byEmployee), clicks |-> byEmployee]

\* click_statistics_report: ?campaign_id=... of the request, or none
Stats ==
    \E campaign_id \in CampaignIds \cup {""} :
       /\ result' = [op |-> "get_click_statistics",
                     campaign_id |-> campaign_id,
                     ret |-> get_click_statistics(campaign_id, "",
                                                  click_tracking)]
       /\ UNCHANGED <<tables, now, ticks, requests>>

NextStats ==
    \/ Enroll
    \/ Dispatch
    \/ Click(MaxClicks)
    \/ Stats

SpecStats == InitTwo /\ [][NextStats]_vars

\* ================================================================ claims
ClicksOf(i) ==
    {k \in 1..Len(click_tracking) :
        click_tracking[k].campaign_employee_id = i}

QuizzesOf(i) ==
    {k \in 1..Len(quiz_result) : quiz_result[k].campaign_employee_id = i}

\* C1: a track_click on an enrollment whose clicked flag is already true
\* returns success with already_clicked, adds no click_tracking row and
\* leaves every campaign_employee row as it was.
C1_ReclickIdempotent ==
    [][result'.op = "track_click" =>
       \A cid \in CampaignIds, token \in TokenInputs, ok \in BOOLEAN :
         (/\ \E i \in 1..Len(campaign_employee) :
                /\ campaign_employee[i].campaign_id = cid
                /\ campaign_employee[i].tracking_token = token
                /\ campaign_employee[i].clicked
          /\ track_click(cid, token, ok))
         => /\ result'.success
            /\ result'.already_clicked
            /\ click_tracking' = click_tracking
            /\ campaign_employee' = campaign_employee]_vars

C1_Witness ==
    /\ result.op = "track_click"
    /\ result.already_clicked
    /\ \E i \in 1..Len(campaign_employee) :
          campaign_employee[i].clicked /\ Cardinality(ClicksOf(i)) = 1

\* C2: an enrollment is clicked exactly when one click_tracking row refers
\* to it and its clicked_at is set.
C2_ClickedIffOneEvent ==
    \A i \in 1..Len(campaign_employee) :
        campaign_employee[i].clicked
        <=> (Cardinality(ClicksOf(i)) = 1
             /\ campaign_employee[i].clicked_at # NULL)

C2_Witness ==
    \E i \in 1..Len(campaign_employee) :
        /\ campaign_employee[i].clicked
        /\ campaign_employee[i].email_sent_at # NULL
        /\ QuizzesOf(i) # {}
        /\ result.op = "track_click" /\ result.already_clicked

\* C3: a clicked enrollment has clicked_at set and status clicked or
\* completed.
C3_ClickedStatus ==
    \A i \in 1..Len(campaign_employee) :
        campaign_employee[i].clicked
        => /\ campaign_employee[i].clicked_at # NULL
           /\ campaign_employee[i].status \in {"clicked", "completed"}

C3_Witness ==
    /\ result.op = "send_emails"
    /\ result.success
    /\ \E i \in 1..Len(campaign_employee) :
          /\ campaign_employee[i].clicked
          /\ campaign_employee[i].status = "clicked"
          /\ campaign_employee[i].email_sent_at = NULL

\* C4: every click_tracking row belongs to a clicked enrollment, every
\* clicked enrollment has a click_tracking row, and an enrollment that is
\* not clicked carries neither clicked_at nor the status clicked.
C4_FirstClickAtomic ==
    /\ \A k \in 1..Len(click_tracking) :
          campaign_employee[click_tracking[k].campaign_employee_id].clicked
    /\ \A i \in 1..Len(campaign_employee) :
          campaign_employee[i].clicked => ClicksOf(i) # {}
    /\ \A i \in 1..Len(campaign_employee) :
          ~campaign_employee[i].clicked
          => /\ campaign_employee[i].clicked_at = NULL
             /\ campaign_employee[i].status # "clicked"

C4_Witness ==
    /\ result.op = "track_click"
    /\ result.message = "Click recorded successfully"
    /\ \E i \in 1..Len(campaign_employee) :
          /\ campaign_employee[i].clicked
          /\ campaign_employee[i].clicked_at = now
          /\ campaign_employee[i].status = "clicked"
          /\ \E k \in ClicksOf(i) : click_tracking[k].clicked_at = now

\* C5: a track_click whose campaign id is unknown, or whose token is not
\* the token of an enrollment of that campaign (a token of another
\* campaign included), fails with status_code 404, adds no click_tracking
\* row and changes no enrollment.
C5_ClickNotFound ==
    [][result'.op = "track_click" =>
       \A cid \in CampaignIds, token \in TokenInputs, ok \in BOOLEAN :
         (/\ \/ cid \notin DOMAIN campaign
             \/ ~\E i \in 1..Len(campaign_employee) :
                    /\ campaign_employee[i].campaign_id = cid
                    /\ campaign_employee[i].tracking_token = token
          /\ track_click(cid, token, ok))
         => /\ ~result'.success
            /\ result'.status_code = 404
            /\ click_tracking' = click_tracking
            /\ campaign_employee' = campaign_employee]_vars

C5_Witness ==
    /\ result.op = "track_click"
    /\ result.status_code = 404
    /\ result.message = "Invalid tracking link"
    /\ Len(campaign_employee) = 2
    /\ campaign_employee[1].campaign_id # campaign_employee[2].campaign_id
    /\ click_tracking = <<>>

\* C6: no two enrollments share a (campaign, employee) pair or a tracking
\* token; no step adds a row for a pair that is already enrolled, removes
\* an enrollment or changes its token.
C6_EnrollmentUnique ==
    /\ [](\A i, j \in 1..Len(campaign_employee) : i # j =>
             /\ campaign_employee[i].tracking_token
                   # campaign_employee[j].tracking_token
             /\ <<campaign_employee[i].campaign_id,
                  campaign_employee[i].employee_id>>
                   # <<campaign_employee[j].campaign_id,
                       campaign_employee[j].employee_id>>)
    /\ [][/\ Len(campaign_employee') >= Len(campaign_employee)
          /\ \A i \in 1..Len(campaign_employee) :
                /\ campaign_employee'[i].tracking_token
                      = campaign_employee[i].tracking_token
                /\ campaign_employee'[i].campaign_id
                      = campaign_employee[i].campaign_id
                /\ campaign_employee'[i].employee_id
                      = campaign_employee[i].employee_id
          /\ \A i \in (Len(campaign_employee) + 1)
                         ..Len(campaign_employee') :
                \A j \in 1..Len(campaign_employee) :
                   <<campaign_employee'[i].campaign_id,
                     campaign_employee'[i].employee_id>>
                      # <<campaign_employee[j].campaign_id,
                          campaign_employee[j].employee_id>>]_vars

C6_Witness ==
    /\ result.op = "add_employees"
    /\ result.success
    /\ result.count = 0
    /\ Len(campaign_employee) = 2
    /\ \E i \in 1..Len(campaign_employee) :
          campaign_employee[i].status = "completed"

\* C7: every enrollment has at most one quiz_result row.
C7_OneQuizResult ==
    \A i \in 1..Len(campaign_employee) : Cardinality(QuizzesOf(i)) <= 1

Max(S) == CHOOSE x \in S : \A y \in S : x >= y

\* C8: the quiz score that calculate_score uses for an enrollment is the
\* score of its latest quiz_result row, 0 when it has none.
C8_LatestQuizScore ==
    \A i \in 1..Len(campaign_employee) :
        calculate_score(i, campaign_employee, quiz_result).quiz_score
           = IF QuizzesOf(i) = {} THEN 0
             ELSE quiz_result[Max(QuizzesOf(i))].score

\* C9: every risk_score row equals what calculate_score yields from the
\* enrollment and quiz_result rows as they are now.
C9_RiskScoreFresh ==
    \A k \in 1..Len(risk_score) :
        LET r == risk_score[k]
            sc == calculate_score(r.campaign_employee_id,
                                  campaign_employee, quiz_result)
        IN  /\ r.clicked_link = sc.email_risk.clicked_link
            /\ r.click_time_minutes = sc.email_risk.click_time_minutes
            /\ r.quiz_score = sc.quiz_score
            /\ r.overall_awareness_level
                  = sc.awareness_metrics.awareness_level
            /\ r.risk_level = sc.risk_level

RiskScoresOf(i, scores) ==
    {k \in 1..Len(scores) : scores[k].campaign_employee_id = i}

\* C10: an enrollment never has two risk_score rows; a row keeps its
\* score_id and enrollment; a quiz submission whose recompute commits
\* inserts the row when there was none and otherwise overwrites that row
\* in place, and sets updated_at to the time of the call.
C10_OneRiskScore ==
    /\ [](\A i \in 1..Len(campaign_employee) :
             Cardinality(RiskScoresOf(i, risk_score)) <= 1)
    /\ [][/\ Len(risk_score') >= Len(risk_score)
          /\ \A k \in 1..Len(risk_score) :
                /\ risk_score'[k].score_id = risk_score[k].score_id
                /\ risk_score'[k].campaign_employee_id
                      = risk_score[k].campaign_employee_id
          /\ (result'.op = "submit_quiz" /\ result'.success) =>
             \A cid \in CampaignIds, token \in TokenInputs,
                answers \in {AllOnes, CredKey, NoAnswers},
                ok1 \in BOOLEAN :
                (/\ submit_quiz(cid, token, answers, ok1, TRUE)
                 /\ result'.success)
                => \E i \in 1..Len(campaign_employee) :
                      /\ campaign_employee[i].campaign_id = cid
                      /\ campaign_employee[i].tracking_token = token
                      /\ \E k \in RiskScoresOf(i, risk_score') :
                            risk_score'[k].updated_at = now
                      /\ Len(risk_score') =
                            IF RiskScoresOf(i, risk_score) = {}
                            THEN Len(risk_score) + 1
                            ELSE Len(risk_score)]_vars

C10_Witness ==
    /\ Len(quiz_result) = 2
    /\ Len(risk_score) = 1
    /\ risk_score[1].calculated_at = 0
    /\ risk_score[1].updated_at > 0
    /\ result.op = "submit_quiz" /\ result.success

\* C11: a risk_score row exists for an enrollment only if a quiz_result
\* row exists for it, so an enrollment that was clicked and never took the
\* quiz has none; a track_click step never changes risk_score.
C11_RecomputeOnlyOnQuiz ==
    /\ [](\A k \in 1..Len(risk_score) :
             QuizzesOf(risk_score[k].campaign_employee_id) # {})
    /\ [][(result'.op = "track_click"
              \/ click_tracking' # click_tracking)
          => risk_score' = risk_score]_vars

C11_Witness ==
    /\ result.op = "track_click" /\ result.success
    /\ Len(risk_score) = 1
    /\ \E i \in 1..Len(campaign_employee) :
          /\ campaign_employee[i].clicked
          /\ QuizzesOf(i) = {}
          /\ RiskScoresOf(i, risk_score) = {}

\* C12: the quiz score a risk_score row carries is the score of a
\* persisted quiz_result row of the same enrollment; a step that writes
\* risk_score also persists a quiz_result row, and a quiz submission whose
\* save fails writes no risk_score.
C12_QuizSavedBeforeScore ==
    /\ [](\A k \in 1..Len(risk_score) :
             \E q \in QuizzesOf(risk_score[k].campaign_employee_id) :
                quiz_result[q].score = risk_score[k].quiz_score)
    /\ [][/\ risk_score' # risk_score
             => Len(quiz_result') = Len(quiz_result) + 1
          /\ (result'.op = "submit_quiz" /\ ~result'.success)
             => risk_score' = risk_score]_vars

C12_Witness ==
    /\ result.op = "submit_quiz" /\ ~result.success /\ result.http = 400
    /\ Len(quiz_result) = 1
    /\ Len(risk_score) = 1
    /\ risk_score[1].quiz_score = quiz_result[1].score
    /\ quiz_result[1].score = 100 * Scale

\* The questions of the bank that a sheet answers with the bank's key.
RightAnswers(answer_data, ptype) ==
    {i \in 1..5 : /\ QuestionIds[i] \in DOMAIN answer_data.map
                  /\ answer_data.map[QuestionIds[i]] = Bank(ptype)[i]}

\* C13: for every answer mapping, validate_quiz_answer's score is
\* correct/total x 100 over the 5 questions of the bank and lies in
\* 0..100, and passed is true exactly when the score is at least 70:
\* 4 right of 5 gives 80 and passed, 3 right of 5 gives 60 and not passed.
C13_GradeScore ==
    (result.op = "validate_quiz_answer" /\ result.answer_data.present) =>
        LET ret == result.ret
            right == Cardinality(RightAnswers(result.answer_data,
                                              result.phishing_type))
        IN  /\ ~ret.failed
            /\ ret.total_questions = 5
            /\ ret.correct_answers = right
            /\ ret.score * ret.total_questions
                  = ret.correct_answers * 100 * Scale
            /\ ret.score \in 0..(100 * Scale)
            /\ ret.passed <=> ret.score >= 70 * Scale
            /\ right = 4 => ret.score = 80 * Scale /\ ret.passed
            /\ right = 3 => ret.score = 60 * Scale /\ ~ret.passed

C13_Witness ==
    /\ result.op = "validate_quiz_answer"
    /\ result.answer_data.present
    /\ result.phishing_type = "urgent_action"
    /\ result.ret.correct_answers = 3
    /\ result.ret.score = 60 * Scale
    /\ ~result.ret.passed

\* C14: validate_quiz_answer grades the questions of the bank only: a
\* question the sheet does not answer is incorrect, a key of the sheet
\* that names no question of the bank changes neither the correct count
\* nor the total, and the trail has one entry per question of the bank,
\* in the bank's order.
C14_GradeBankOnly ==
    (result.op = "validate_quiz_answer" /\ result.answer_data.present) =>
        LET ret == result.ret
            map == result.answer_data.map
            inBank == [k \in DOMAIN map \cap Range(QuestionIds) |-> map[k]]
            again == validate_quiz_answer(Sheet(inBank),
                                          result.phishing_type)
        IN  /\ ret.total_questions = 5
            /\ ret.total_questions = again.total_questions
            /\ ret.correct_answers = again.correct_answers
            /\ Len(ret.answers) = 5
            /\ \A i \in 1..5 :
                  /\ ret.answers[i].question_id = QuestionIds[i]
                  /\ QuestionIds[i] \notin DOMAIN map
                        => ~ret.answers[i].is_correct
            /\ ret.correct_answers
                  = Cardinality({i \in 1..5 : ret.answers[i].is_correct})

C14_Witness ==
    /\ result.op = "validate_quiz_answer"
    /\ result.answer_data.present
    /\ DOMAIN result.answer_data.map = {"q1", "q2", "q9"}
    /\ result.ret.correct_answers = 2
    /\ result.ret.total_questions = 5
    /\ Len(result.ret.answers) = 5

\* C15: save_quiz_result for a campaign and employee that have no
\* enrollment (the campaign or the employee may be unknown) reports
\* failure, adds no quiz_result row and leaves every enrollment as it was.
C15_SaveNotEnrolled ==
    [][result'.op = "save_quiz_result" =>
       \A cid \in CampaignIds, employee_id \in EmployeeInputs,
          answers \in {AllOnes, NoAnswers}, ok \in BOOLEAN :
          LET saved == save_quiz_result(
                          cid, employee_id,
                          IF cid \in DOMAIN campaign
                          THEN campaign[cid].phishing_type ELSE "other",
                          answers, ok, campaign_employee, quiz_result)
          IN  (\A i \in 1..Len(campaign_employee) :
                  <<campaign_employee[i].campaign_id,
                    campaign_employee[i].employee_id>>
                     # <<cid, employee_id>>)
              => /\ ~saved.success
                 /\ saved.quiz_result = quiz_result
                 /\ saved.campaign_employee = campaign_employee]_vars

C15_Witness ==
    /\ result.op = "save_quiz_result"
    /\ ~result.success
    /\ result.message = "Enrollment not found"
    /\ Len(campaign_employee) = 1
    /\ campaign_employee[1].status = "sent"
    /\ quiz_result = <<>>

\* C16: a save_quiz_result that succeeds adds one quiz_result row and
\* sets the status of that row's enrollment to completed, whatever the
\* status and the clicked flag were; one that fails changes neither table;
\* no step adds a quiz_result row without that status change.
C16_SaveCompletes ==
    [][/\ quiz_result' # quiz_result =>
             /\ Len(quiz_result') = Len(quiz_result) + 1
             /\ SubSeq(quiz_result', 1, Len(quiz_result)) = quiz_result
             /\ LET i == quiz_result'[Len(quiz_result')].campaign_employee_id
                IN  campaign_employee' =
                       [campaign_employee EXCEPT ![i].status = "completed"]
       /\ (result'.op = "save_quiz_result" /\ result'.success)
          => Len(quiz_result') = Len(quiz_result) + 1
       /\ (result'.op = "save_quiz_result" /\ ~result'.success)
          => /\ quiz_result' = quiz_result
             /\ campaign_employee' = campaign_employee]_vars

C16_Witness ==
    /\ result.op = "save_quiz_result"
    /\ result.success
    /\ \E i \in 1..Len(campaign_employee) :
          /\ campaign_employee[i].status = "completed"
          /\ ~campaign_employee[i].clicked
          /\ campaign_employee[i].email_sent_at = NULL
          /\ Cardinality(QuizzesOf(i)) = 1

\* The stage of a status along pending -> sent -> clicked -> completed.
StatusRank(s) ==
    IF s = "pending" THEN 0
    ELSE IF s = "sent" THEN 1
    ELSE IF s = "clicked" THEN 2
    ELSE 3

\* C17: no step moves the status of an enrollment from a later stage of
\* pending -> sent -> clicked -> completed to an earlier one; a completed
\* enrollment stays completed.
C17_StatusForward ==
    [][\A i \in 1..Len(campaign_employee) :
          StatusRank(campaign_employee'[i].status)
             >= StatusRank(campaign_employee[i].status)]_vars

\* C18: calculate_score's behavior score is 100 for an enrollment that
\* was not clicked; for a clicked one with both timestamps the speed-risk
\* points are 30 under 1 minute from dispatch to click, 25 under 5, 20
\* under 30, 15 under 60 and 10 from 60 minutes on, and the behavior score
\* is 60 minus the points.
C18_EmailBehavior ==
    result.op = "calculate_score" =>
        LET ce == campaign_employee[1]
            points == result.ret.email_risk.time_to_click_risk
            behavior == result.ret.awareness_metrics.email_behavior_score
            secs == ce.clicked_at - ce.email_sent_at
        IN  /\ ~ce.clicked => behavior = 100
            /\ (ce.clicked /\ ce.clicked_at # NULL
                   /\ ce.email_sent_at # NULL)
               => /\ secs < 1 * 60 => points = 30
                  /\ (secs >= 1 * 60 /\ secs < 5 * 60) => points = 25
                  /\ (secs >= 5 * 60 /\ secs < 30 * 60) => points = 20
                  /\ (secs >= 30 * 60 /\ secs < 60 * 60) => points = 15
                  /\ secs >= 60 * 60 => points = 10
                  /\ behavior = 60 - points

C18_Witness ==
    /\ result.op = "calculate_score"
    /\ campaign_employee[1].clicked
    /\ campaign_employee[1].email_sent_at = 30
    /\ campaign_employee[1].clicked_at = 30 + 300
    /\ result.ret.email_risk.time_to_click_risk = 20
    /\ result.ret.awareness_metrics.email_behavior_score = 40

\* C19: for every enrollment whose clicked flag is true, the behavior
\* score that calculate_score uses lies in 30..50.
C19_ClickedBehaviorRange ==
    \A i \in 1..Len(campaign_employee) :
        campaign_employee[i].clicked =>
            calculate_score(i, campaign_employee, quiz_result)
               .awareness_metrics.email_behavior_score \in 30..50

\* C20: calculate_score's overall score is quiz score x 0.4 + behavior
\* score x 0.6 and lies in 0..100, for every quiz score of 0, 20, .., 100
\* and every behavior score calculate_email_risk can lead to.
C20_OverallWeighted ==
    result.op = "calculate_score" =>
        LET metrics == result.ret.awareness_metrics
            quiz == IF quiz_result = <<>> THEN 0 ELSE quiz_result[1].score
        IN  /\ result.ret.quiz_score = quiz
            /\ metrics.overall_score * 10
                  = quiz * 4 + metrics.email_behavior_score * Scale * 6
            /\ metrics.overall_score \in 0..(100 * Scale)

C20_Witness ==
    /\ result.op = "calculate_score"
    /\ quiz_result # <<>>
    /\ quiz_result[1].score = 100 * Scale
    /\ ~campaign_employee[1].clicked
    /\ result.ret.awareness_metrics.overall_score = 100 * Scale

\* The levels the two threshold sets give an overall score of o
\* thousandths of a point.
AwarenessOf(o) ==
    IF o >= 80 * Scale * 10 THEN "high"
    ELSE IF o >= 50 * Scale * 10 THEN "medium" ELSE "low"

RiskOf(o) ==
    IF o >= 75 * Scale * 10 THEN "low"
    ELSE IF o >= 50 * Scale * 10 THEN "medium" ELSE "high"

Scenario65 ==
    {i \in 1..Len(campaign_employee) :
        /\ result.op = "submit_quiz" /\ result.success
        /\ campaign_employee[i].email_sent_at # NULL
        /\ campaign_employee[i].clicked
        /\ campaign_employee[i].clicked_at
              - campaign_employee[i].email_sent_at = 65
        /\ Cardinality(QuizzesOf(i)) = 1
        /\ \A q \in QuizzesOf(i) : quiz_result[q].correct_answers = 5}

\* C22 as stated: the scenario's score has speed risk 30, behavior score
\* 30, quiz score 100, overall 58.0, awareness medium and risk medium.
C22_Scenario58 ==
    \A i \in Scenario65 :
        LET sc == calculate_score(i, campaign_employee, quiz_result)
        IN  /\ sc.email_risk.time_to_click_risk = 30
            /\ sc.awareness_metrics.email_behavior_score = 30
            /\ sc.quiz_score = 100 * Scale
            /\ sc.awareness_metrics.overall_score = 58 * Scale
            /\ sc.awareness_metrics.awareness_level = "medium"
            /\ sc.risk_level = "medium"

\* C22 amended: the scenario's score has speed risk 25 (65 seconds is
\* over 1 minute and under 5), behavior score 35, quiz score 100, overall
\* 61.0, awareness medium and risk medium.
C22_Scenario61 ==
    \A i \in Scenario65 :
        LET sc == calculate_score(i, campaign_employee, quiz_result)
        IN  /\ sc.email_risk.time_to_click_risk = 25
            /\ sc.awareness_metrics.email_behavior_score = 35
            /\ sc.quiz_score = 100 * Scale
            /\ sc.awareness_metrics.overall_score = 61 * Scale
            /\ sc.awareness_metrics.awareness_level = "medium"
            /\ sc.risk_level = "medium"

C22_Witness ==
    /\ Scenario65 # {}
    /\ \E k \in 1..Len(risk_score) :
          /\ risk_score[k].campaign_employee_id \in Scenario65
          /\ risk_score[k].clicked_link
          /\ risk_score[k].click_time_minutes = 1
          /\ risk_score[k].updated_at = now

\* C23: when track_click calls on one unclicked token overlap, at most
\* one click_tracking row is added beyond the first, and once every call
\* has returned an enrollment with a click row has clicked = true,
\* clicked_at set and status clicked.
C23_RaceOneExtra ==
    \A i \in 1..Len(campaign_employee) :
        /\ Cardinality(ClicksOf(i)) <= 2
        /\ ((\A r \in DOMAIN requests : requests[r].pc = "done")
               /\ ClicksOf(i) # {})
           => /\ campaign_employee[i].clicked
              /\ campaign_employee[i].clicked_at # NULL
              /\ campaign_employee[i].status = "clicked"

\* C24: a track_click or save_quiz_result whose commit fails reports
\* failure and leaves click_tracking, quiz_result and every enrollment
\* as they were before the call.
C24_FailedCommitRollsBack ==
    [][/\ result'.op = "track_click" =>
             \A cid \in CampaignIds, token \in TokenInputs :
                LET ce_id == FindEnrollment(cid, token, campaign_employee)
                IN  (/\ cid \in DOMAIN campaign
                     /\ ce_id # 0
                     /\ ~campaign_employee[ce_id].clicked
                     /\ track_click(cid, token, FALSE))
                    => /\ ~result'.success
                       /\ click_tracking' = click_tracking
                       /\ quiz_result' = quiz_result
                       /\ campaign_employee' = campaign_employee
       /\ result'.op = "save_quiz_result" =>
             \A cid \in CampaignIds, employee_id \in EmployeeInputs :
                LET saved == save_quiz_result(
                                cid, employee_id,
                                IF cid \in DOMAIN campaign
                                THEN campaign[cid].phishing_type
                                ELSE "other",
                                AllOnes, FALSE, campaign_employee,
                                quiz_result)
                IN  /\ ~saved.success
                    /\ saved.quiz_result = quiz_result
                    /\ saved.campaign_employee = campaign_employee]_vars

C24_Witness ==
    /\ result.op = "track_click"
    /\ ~result.success
    /\ result.status_code = 500
    /\ click_tracking = <<>>
    /\ \E i \in 1..Len(campaign_employee) :
          /\ campaign_employee[i].status = "sent"
          /\ ~campaign_employee[i].clicked
          /\ campaign_employee[i].clicked_at = NULL

\* A not-found answer of a token-addressed operation.
NotFound(r) ==
    /\ r.op \in {"track_click", "awareness_portal"}
    /\ ~r.success
    /\ r.http = 404
    /\ r.status_code \in {404, NULL}

\* C25: the not-found outcome of click tracking and of the awareness
\* portal is the same whichever part was missing: two not-found answers
\* of the same operation, one after the other, are identical.
C25_NotFoundUniform ==
    [][(NotFound(result) /\ NotFound(result') /\ result'.op = result.op)
       => result' = result]_vars

\* C26: a quiz submission whose campaign id is unknown, or whose token
\* is not the token of an enrollment of that campaign, is answered 404
\* and changes no table.
C26_SubmitNotFound ==
    [][result'.op = "submit_quiz" =>
          \A cid \in CampaignIds, token \in TokenInputs :
             (/\ \/ cid \notin DOMAIN campaign
                 \/ FindEnrollment(cid, token, campaign_employee) = 0
              /\ submit_quiz(cid, token, AllOnes, TRUE, TRUE))
             => /\ result'.http = 404
                /\ UNCHANGED tables]_vars

\* C27: get_campaign_risk_summary for a campaign without risk_score rows
\* returns a result whose every count, click rate and average are 0; with
\* rows, the total, the click rate and the average quiz score are those
\* of the campaign's own rows, to the nearest hundredth.
C27_CampaignSummary ==
    (result.op = "get_campaign_risk_summary"
        /\ result.campaign_id \in DOMAIN campaign) =>
        LET ret == result.ret
            mine == {k \in 1..Len(risk_score) :
                        risk_score[k].campaign_id = result.campaign_id}
            total == Cardinality(mine)
            clicked == Cardinality({k \in mine : risk_score[k].clicked_link})
            Near(x, exact) ==
                /\ 2 * (x * total - exact) <= total
                /\ 2 * (exact - x * total) <= total
        IN  IF mine = {}
            THEN /\ "success" \notin DOMAIN ret
                 /\ \A f \in DOMAIN ret : ret[f] = 0
                 /\ {"high_awareness", "medium_awareness", "low_awareness",
                     "high_risk", "medium_risk", "low_risk"}
                       \subseteq DOMAIN ret
            ELSE /\ ret.total_employees = total
                 /\ ret.high_awareness + ret.medium_awareness
                       + ret.low_awareness = total
                 /\ ret.high_risk + ret.medium_risk + ret.low_risk = total
                 /\ Near(ret.click_rate_percentage, clicked * 100 * Scale)
                 /\ Near(ret.average_quiz_score,
                         SumQuizScore(risk_score, mine))

C27_Witness ==
    /\ result.op = "get_campaign_risk_summary"
    /\ result.campaign_id = "c1"
    /\ Len(risk_score) = 3
    /\ result.ret.total_employees = 2
    /\ result.ret.click_rate_percentage = 50 * Scale
    /\ result.ret.average_quiz_score = 80 * Scale
    /\ risk_score[3].campaign_id = "c2"
    /\ risk_score[3].clicked_link

\* C28: the device type is mobile if the user-agent has the mobile or the
\* android signature, otherwise tablet if it has ipad or tablet, otherwise
\* desktop; android with mobile is mobile, ipad alone is tablet, and an
\* empty or missing user-agent gives Unknown browser, Unknown OS, desktop.
C28_DeviceType ==
    result.op = "parse_device_info" =>
        LET ua == result.user_agent
            has(sig) == ua.present /\ sig \in ua.sigs
            isMobile == has("mobile") \/ has("android")
            isTablet == ~isMobile /\ (has("ipad") \/ has("tablet"))
        IN  /\ result.device_type = "mobile" <=> isMobile
            /\ result.device_type = "tablet" <=> isTablet
            /\ result.device_type = "desktop" <=> ~isMobile /\ ~isTablet
            /\ (~ua.present \/ ua.sigs = {})
               => /\ result.device_info.browser = "Unknown"
                  /\ result.device_info.os = "Unknown"
                  /\ result.device_type = "desktop"

C28_Witness ==
    /\ result.op = "parse_device_info"
    /\ result.user_agent.present
    /\ result.user_agent.sigs = {"ipad", "safari", "mac"}
    /\ result.device_type = "tablet"

\* C29: a user-agent with the chrome and the safari signature is Chrome,
\* one with safari and without chrome is Safari, and one with the edge
\* signature is Edge whichever other signatures it has.
C29_BrowserOrder ==
    result.op = "parse_device_info" =>
        LET ua == result.user_agent
            has(sig) == ua.present /\ sig \in ua.sigs
            browser == result.device_info.browser
        IN  /\ has("edge") => browser = "Edge"
            /\ (has("chrome") /\ has("safari") /\ ~has("edge"))
               => browser = "Chrome"
            /\ (has("safari") /\ ~has("chrome") /\ ~has("edge"))
               => browser = "Safari"


\* C30: for any configured pass threshold T, validate_quiz_answer reports
\* passed exactly when the score is at least T.
C30_PassThresholdConfigured ==
    (result.op = "validate_quiz_answer" /\ result.answer_data.present) =>
        (result.ret.passed
            <=> result.ret.score >= result.QUIZ_PASS_SCORE * Scale)


\* C31: for a scenario type outside the fixed set get_quiz_questions and
\* validate_quiz_answer use the five questions of the credential_harvesting
\* bank and do not fail, and every question get_quiz_questions returns has
\* its id, text and options only, no correct_answer and no explanation.
C31_DefaultBank ==
    LET fallback == result.phishing_type \notin DOMAIN QUIZ_QUESTIONS
        default == QUIZ_QUESTIONS["credential_harvesting"]
    IN  /\ result.op = "get_quiz_questions" =>
            /\ Len(result.ret) = 5
            /\ \A i \in 1..Len(result.ret) :
                  /\ DOMAIN result.ret[i] = {"id", "question", "options"}
                  /\ result.ret[i].id = QuestionIds[i]
                  /\ fallback => result.ret[i].question
                                    = <<"credential_harvesting", i>>
        /\ (/\ result.op = "validate_quiz_answer"
            /\ result.answer_data.present
            /\ fallback) =>
            /\ ~result.ret.failed
            /\ result.ret.total_questions = 5
            /\ \A i \in 1..5 :
                  result.ret.answers[i].correct_answer = default[i]

C31_Witness ==
    /\ result.op = "get_quiz_questions"
    /\ result.phishing_type = "other"
    /\ Len(result.ret) = 5


\* C32: while a dispatch batch interleaves with clicks on its enrollments,
\* no enrollment has clicked = TRUE with a status other than clicked or
\* completed.
C32_ClickedKeepsStatus ==
    \A i \in 1..Len(campaign_employee) :
        campaign_employee[i].clicked
            => campaign_employee[i].status \in {"clicked", "completed"}


\* C33: with two calculate_and_save_risk_score calls running at once for
\* an enrollment that has no RiskScore, at most one RiskScore row exists
\* for the enrollment.
C33_OneScorePerEnrollment ==
    \A i, j \in 1..Len(risk_score) :
        risk_score[i].campaign_employee_id
            = risk_score[j].campaign_employee_id => i = j


\* C34: a dispatch mails only enrollments that are pending and have no
\* email_sent_at; when its commit succeeds every enrollment whose send
\* succeeded gets email_sent_at = now and status sent, and every other
\* enrollment, those whose send failed included, is left as it was; so a
\* repeated dispatch mails no sent, clicked or completed enrollment and
\* overwrites no email_sent_at.
C34_DispatchPendingOnly ==
    [][(result'.op = "send_emails" /\ ticks' = ticks) =>
          /\ \A i \in result'.mailed :
                /\ campaign_employee[i].status = "pending"
                /\ campaign_employee[i].email_sent_at = NULL
          /\ result'.sent \subseteq result'.mailed
          /\ Len(campaign_employee') = Len(campaign_employee)
          /\ \A i \in 1..Len(campaign_employee) :
                campaign_employee'[i] =
                   IF i \in result'.sent /\ result'.http = 200
                   THEN [campaign_employee[i] EXCEPT
                            !.email_sent_at = now, !.status = "sent"]
                   ELSE campaign_employee[i]]_vars

\* a repeated dispatch that found nothing to mail in a campaign whose
\* enrollment is clicked and keeps its email_sent_at
C34_Witness ==
    /\ result.op = "send_emails"
    /\ result.http = 200
    /\ result.mailed = {}
    /\ \E i \in 1..Len(campaign_employee) :
          /\ campaign_employee[i].status = "clicked"
          /\ campaign_employee[i].email_sent_at # NULL
          /\ campaign_employee[i].clicked_at > campaign_employee[i].email_sent_at


\* C35: an enrollment with both email_sent_at and clicked_at set has
\* email_sent_at no later than clicked_at, and no risk_score row stores a
\* negative click_time_minutes.
C35_SentBeforeClicked ==
    /\ \A i \in 1..Len(campaign_employee) :
          (/\ campaign_employee[i].email_sent_at # NULL
           /\ campaign_employee[i].clicked_at # NULL)
          => campaign_employee[i].email_sent_at
                <= campaign_employee[i].clicked_at
    /\ \A k \in 1..Len(risk_score) :
          risk_score[k].click_time_minutes # NULL
              => risk_score[k].click_time_minutes >= 0

C35_Witness ==
    \E k \in 1..Len(risk_score) :
       LET ce == campaign_employee[risk_score[k].campaign_employee_id]
       IN  /\ ce.email_sent_at # NULL
           /\ ce.clicked_at = ce.email_sent_at + 65
           /\ risk_score[k].click_time_minutes = 1


\* C36: after a quiz submission that reports success, a risk_score row
\* exists for the enrollment whose quiz_result the submission saved.
C36_SuccessHasRiskScore ==
    [][(/\ result'.op = "submit_quiz"
        /\ result'.success
        /\ Len(quiz_result') = Len(quiz_result) + 1)
       => RiskScoresOf(quiz_result'[Len(quiz_result')]
                          .campaign_employee_id, risk_score') # {}]_vars


\* C37: no risk_score row with clicked_link = TRUE has risk level low.
C37_ClickedNeverLowRisk ==
    \A k \in 1..Len(risk_score) :
        risk_score[k].clicked_link => risk_score[k].risk_level # "low"


\* C38: in every risk_score row the risk level is high exactly when the
\* awareness level is low, and an awareness level high comes with risk
\* level low.
C38_LevelsConsistent ==
    \A k \in 1..Len(risk_score) :
        /\ risk_score[k].risk_level = "high"
              <=> risk_score[k].overall_awareness_level = "low"
        /\ risk_score[k].overall_awareness_level = "high"
              => risk_score[k].risk_level = "low"

C38_Witness ==
    \E k \in 1..Len(risk_score) :
        /\ risk_score[k].clicked_link
        /\ risk_score[k].click_time_minutes = 0
        /\ risk_score[k].quiz_score = 100 * Scale
        /\ risk_score[k].overall_awareness_level = "medium"
        /\ risk_score[k].risk_level = "medium"


\* C39: get_click_statistics called with a campaign id counts the
\* click_tracking rows of that campaign only; for an id that matches no
\* campaign total_clicks is 0.
C39_StatsOfCampaign ==
    (result.op = "get_click_statistics" /\ result.campaign_id # "") =>
        result.ret.total_clicks =
            Cardinality({k \in 1..Len(click_tracking) :
                            click_tracking[k].campaign_id
                                = result.campaign_id})

====
